---- MODULE Spec2Model ----
(***************************************************************************)
(* A model of stac.client: MavenArtifactoryClient and its URL generator.   *)
(*                                                                         *)
(* Python strings are sequences of one-character strings, Python's None is *)
(* the record None, an optional string is None or Str(chars).  A call of a *)
(* public method is a frame of one caller: its arguments (call), the       *)
(* locals it keeps over the blocking DAO call (locals), the DAO requests   *)
(* it has issued (sent), the DAO's answer (reply) and what the caller gets *)
(* (result).  A lookup is two steps, split where the code blocks on the    *)
(* DAO; get_version_url is one step.                                       *)
(***************************************************************************)
EXTENDS Integers, Sequences, FiniteSets, TLC

VARIABLES config, self, pc, call, locals, sent, reply, result

vars == <<config, self, pc, call, locals, sent, reply, result>>

----------------------------------------------------------------------------
(* Bounds of the model. *)

MaxNameLen == 3

MaxLimit == 2

NumCallers == 2

----------------------------------------------------------------------------
(* Python values. *)

None == [type |-> "NoneType"]

Str(chars) == [type |-> "str", chars |-> chars]

Return(value) == [kind |-> "return", value |-> value]

Raise(exc) == [kind |-> "raise", exc |-> exc]

NoOutcome == [kind |-> "none"]

NoCall == [op |-> "none"]

NoLocals == [bound |-> FALSE]

(* group, artifact = full_name.rsplit('.', 1) with one part only: the      *)
(* tuple unpacking raises ValueError.                                      *)
ValueError == [type |-> "ValueError"]

not_found == 404

----------------------------------------------------------------------------
(* The string methods the client uses. *)

RECURSIVE rfind(_, _, _)
rfind(s, sep, i) ==
    IF i = 0 THEN 0
    ELSE IF s[i] = sep THEN i
    ELSE rfind(s, sep, i - 1)

RECURSIVE find(_, _, _)
find(s, sep, i) ==
    IF i > Len(s) THEN 0
    ELSE IF s[i] = sep THEN i
    ELSE find(s, sep, i + 1)

(* The slip of s.split(sep, 1) for s.rsplit(sep, 1): the first sep. *)
rsplit_first(s, sep) ==
    LET i == find(s, sep, 1)
    IN  IF i = 0 THEN <<s>>
        ELSE <<SubSeq(s, 1, i - 1), SubSeq(s, i + 1, Len(s))>>

(* s.rsplit(sep, 1): split at the last sep; one part when there is none. *)
rsplit(s, sep) ==
    LET i == rfind(s, sep, Len(s))
    IN  IF i = 0 THEN <<s>>
        ELSE <<SubSeq(s, 1, i - 1), SubSeq(s, i + 1, Len(s))>>

RECURSIVE replace(_, _, _)
replace(s, old, new) ==
    IF s = <<>> THEN <<>>
    ELSE <<IF Head(s) = old THEN new ELSE Head(s)>> \o replace(Tail(s), old, new)

RECURSIVE join(_, _)
join(sep, parts) ==
    IF parts = <<>> THEN <<>>
    ELSE IF Len(parts) = 1 THEN parts[1]
    ELSE parts[1] \o sep \o join(sep, Tail(parts))

----------------------------------------------------------------------------
(* _MavenArtifactUrlGenerator *)

MavenArtifactUrlGenerator_init(base, repo) == [base |-> base, repo |-> repo]

MavenArtifactUrlGenerator_get_version_url(gen, group, artifact, packaging, version, descriptor) ==
    LET group_path == replace(group, ".", "/")
        artifact_name ==
            IF descriptor # None
            THEN artifact \o <<"-">> \o version \o <<"-">> \o descriptor.chars
                     \o <<".">> \o packaging
            ELSE artifact \o <<"-">> \o version \o <<".">> \o packaging
    IN  join(<<"/">>, <<gen.base, gen.repo, group_path, artifact, version,
                        artifact_name>>)

----------------------------------------------------------------------------
(* MavenArtifactoryClient.  A method's model gives the object after it     *)
(* (self), the DAO requests it issues (requests) and what it hands back    *)
(* (outcome; NoOutcome while it blocks on the DAO).                        *)

MavenArtifactoryClient_init(cfg) ==
    [is_snapshot   |-> cfg.is_snapshot,
     dao           |-> cfg.dao,
     artifact_urls |-> MavenArtifactUrlGenerator_init(cfg.base_url, cfg.repo)]

(* The slip of not handing the cause on. *)
get_wrapped_exception_no_cause(client, group, artifact, cause) ==
    [type    |-> "NoMatchingVersionsError",
     message |-> [version_type |-> IF client.is_snapshot THEN "integration"
                                   ELSE "non-integration",
                  group |-> group,
                  name  |-> artifact],
     cause   |-> None]

get_wrapped_exception(client, group, artifact, cause) ==
    [type    |-> "NoMatchingVersionsError",
     message |-> [version_type |-> IF client.is_snapshot THEN "integration"
                                   ELSE "non-integration",
                  group |-> group,
                  name  |-> artifact],
     cause   |-> cause]

(* The slip of asking the DAO whether the artifact is there. *)
get_version_url_asking(client, full_name, packaging, version, descriptor) ==
    LET parts == rsplit(full_name, ".")
    IN  IF Len(parts) # 2
        THEN [self |-> client, requests |-> <<>>, outcome |-> Raise(ValueError)]
        ELSE [self |-> client,
              requests |-> << [method |-> "get_most_recent_release",
                               dao |-> client.dao,
                               group |-> parts[1], artifact |-> parts[2]] >>,
              outcome |-> Return(MavenArtifactUrlGenerator_get_version_url(
                              client.artifact_urls, parts[1], parts[2],
                              packaging, version, descriptor))]

get_version_url(client, full_name, packaging, version, descriptor) ==
    LET parts == rsplit(full_name, ".")
    IN  IF Len(parts) # 2
        THEN [self |-> client, requests |-> <<>>, outcome |-> Raise(ValueError)]
        ELSE [self |-> client, requests |-> <<>>,
              outcome |-> Return(MavenArtifactUrlGenerator_get_version_url(
                              client.artifact_urls, parts[1], parts[2],
                              packaging, version, descriptor))]

(* _get_latest_release_version: the DAO call it makes, and what it does    *)
(* with the DAO's answer.                                                  *)
get_latest_release_version_call(client, group, artifact) ==
    [method |-> "get_most_recent_release", dao |-> client.dao,
     group |-> group, artifact |-> artifact]

get_latest_release_version_return(client, group, artifact, dao_outcome) ==
    dao_outcome

(* The slip of asking for release versions on the snapshot path. *)
get_latest_snapshot_version_call_release(client, group, artifact) ==
    [method |-> "get_most_recent_versions", dao |-> client.dao,
     group |-> group, artifact |-> artifact, limit |-> 1, integration |-> FALSE]

(* The slip of taking the first version without the test for none. *)
get_latest_snapshot_version_return_unchecked(client, group, artifact, dao_outcome) ==
    IF dao_outcome.kind = "raise" THEN dao_outcome
    ELSE IF dao_outcome.value = <<>>
         THEN Raise([type |-> "IndexError"])
         ELSE Return(dao_outcome.value[1])

(* _get_latest_snapshot_version, likewise. *)
get_latest_snapshot_version_call(client, group, artifact) ==
    [method |-> "get_most_recent_versions", dao |-> client.dao,
     group |-> group, artifact |-> artifact, limit |-> 1, integration |-> TRUE]

get_latest_snapshot_version_return(client, group, artifact, dao_outcome) ==
    IF dao_outcome.kind = "raise" THEN dao_outcome
    ELSE IF dao_outcome.value = <<>>
         THEN Raise(get_wrapped_exception(client, group, artifact, None))
         ELSE Return(dao_outcome.value[1])

(* The slip of keeping the stream of the last lookup on the client. *)
get_latest_version_call_keeping(client, full_name) ==
    LET parts == rsplit(full_name, ".")
    IN  IF Len(parts) # 2
        THEN [self |-> client, requests |-> <<>>, outcome |-> Raise(ValueError),
              locals |-> NoLocals]
        ELSE [self |-> [client EXCEPT !.is_snapshot = TRUE],
              requests |-> << IF ~client.is_snapshot
                              THEN [method |-> "get_most_recent_release",
                                    dao |-> client.dao,
                                    group |-> parts[1], artifact |-> parts[2]]
                              ELSE [method |-> "get_most_recent_versions",
                                    dao |-> client.dao,
                                    group |-> parts[1], artifact |-> parts[2],
                                    limit |-> 1, integration |-> TRUE] >>,
              outcome |-> NoOutcome,
              locals |-> [bound |-> TRUE, group |-> parts[1],
                          artifact |-> parts[2],
                          branch |-> IF ~client.is_snapshot THEN "release"
                                     ELSE "snapshot"]]

(* get_latest_version up to its DAO call. *)
get_latest_version_call(client, full_name) ==
    LET parts == rsplit(full_name, ".")
    IN  IF Len(parts) # 2
        THEN [self |-> client, requests |-> <<>>, outcome |-> Raise(ValueError),
              locals |-> NoLocals]
        ELSE [self |-> client,
              requests |-> << IF ~client.is_snapshot
                              THEN get_latest_release_version_call(
                                       client, parts[1], parts[2])
                              ELSE get_latest_snapshot_version_call(
                                       client, parts[1], parts[2]) >>,
              outcome |-> NoOutcome,
              locals |-> [bound |-> TRUE, group |-> parts[1],
                          artifact |-> parts[2],
                          branch |-> IF ~client.is_snapshot THEN "release"
                                     ELSE "snapshot"]]

(* The slip of asking once more after an HTTPError that is no 404. *)
get_latest_version_return_retrying(client, frame, dao_outcome) ==
    LET inner == IF frame.branch = "release"
                 THEN dao_outcome
                 ELSE IF dao_outcome.kind = "raise" THEN dao_outcome
                 ELSE IF dao_outcome.value = <<>>
                      THEN Raise(get_wrapped_exception(client, frame.group,
                                                       frame.artifact, None))
                      ELSE Return(dao_outcome.value[1])
        e == inner.exc
        is404 == e.response # None /\ e.response.status_code = not_found
    IN  [self |-> client,
         requests |->
            IF inner.kind = "raise" /\ e.type = "HTTPError" /\ ~is404
            THEN << [method |-> "get_most_recent_release", dao |-> client.dao,
                     group |-> frame.group, artifact |-> frame.artifact] >>
            ELSE <<>>,
         outcome |->
            IF inner.kind = "raise" /\ e.type = "HTTPError"
            THEN IF is404
                 THEN Raise(get_wrapped_exception(client, frame.group,
                                                  frame.artifact, e))
                 ELSE inner
            ELSE inner]

(* get_latest_version from the DAO's answer on: the callee's own handling, *)
(* then the except clause.  An exception that is no requests.HTTPError     *)
(* (NoMatchingVersionsError, ConnectionError) passes the clause by.        *)
get_latest_version_return(client, frame, dao_outcome) ==
    LET inner == IF frame.branch = "release"
                 THEN get_latest_release_version_return(
                          client, frame.group, frame.artifact, dao_outcome)
                 ELSE get_latest_snapshot_version_return(
                          client, frame.group, frame.artifact, dao_outcome)
        e == inner.exc
    IN  [self |-> client, requests |-> <<>>,
         outcome |->
            IF inner.kind = "raise" /\ e.type = "HTTPError"
            THEN IF e.response # None /\ e.response.status_code = not_found
                 THEN Raise(get_wrapped_exception(client, frame.group,
                                                  frame.artifact, e))
                 ELSE inner
            ELSE inner]

(* The slip of limit < 0 for limit < 1. *)
get_latest_versions_call_zero(client, full_name, limit) ==
    IF limit < 0
    THEN [self |-> client, requests |-> <<>>, outcome |-> Raise(ValueError),
          locals |-> NoLocals]
    ELSE LET parts == rsplit(full_name, ".")
         IN  IF Len(parts) # 2
             THEN [self |-> client, requests |-> <<>>,
                   outcome |-> Raise(ValueError), locals |-> NoLocals]
             ELSE [self |-> client,
                   requests |-> << [method |-> "get_most_recent_versions",
                                    dao |-> client.dao,
                                    group |-> parts[1], artifact |-> parts[2],
                                    limit |-> limit,
                                    integration |-> client.is_snapshot] >>,
                   outcome |-> NoOutcome,
                   locals |-> [bound |-> TRUE, group |-> parts[1],
                               artifact |-> parts[2], branch |-> "versions"]]

(* The slip of integration=True whatever the client's flag. *)
get_latest_versions_call_integration(client, full_name, limit) ==
    IF limit < 1
    THEN [self |-> client, requests |-> <<>>, outcome |-> Raise(ValueError),
          locals |-> NoLocals]
    ELSE LET parts == rsplit(full_name, ".")
         IN  IF Len(parts) # 2
             THEN [self |-> client, requests |-> <<>>,
                   outcome |-> Raise(ValueError), locals |-> NoLocals]
             ELSE [self |-> client,
                   requests |-> << [method |-> "get_most_recent_versions",
                                    dao |-> client.dao,
                                    group |-> parts[1], artifact |-> parts[2],
                                    limit |-> limit,
                                    integration |-> TRUE] >>,
                   outcome |-> NoOutcome,
                   locals |-> [bound |-> TRUE, group |-> parts[1],
                               artifact |-> parts[2], branch |-> "versions"]]

(* get_latest_versions up to its DAO call. *)
get_latest_versions_call(client, full_name, limit) ==
    IF limit < 1
    THEN [self |-> client, requests |-> <<>>, outcome |-> Raise(ValueError),
          locals |-> NoLocals]
    ELSE LET parts == rsplit(full_name, ".")
         IN  IF Len(parts) # 2
             THEN [self |-> client, requests |-> <<>>,
                   outcome |-> Raise(ValueError), locals |-> NoLocals]
             ELSE [self |-> client,
                   requests |-> << [method |-> "get_most_recent_versions",
                                    dao |-> client.dao,
                                    group |-> parts[1], artifact |-> parts[2],
                                    limit |-> limit,
                                    integration |-> client.is_snapshot] >>,
                   outcome |-> NoOutcome,
                   locals |-> [bound |-> TRUE, group |-> parts[1],
                               artifact |-> parts[2], branch |-> "versions"]]

(* The slip of leaving the status out of the except clause's test. *)
get_latest_versions_return_any_status(client, frame, dao_outcome) ==
    LET e == dao_outcome.exc
    IN  [self |-> client, requests |-> <<>>,
         outcome |->
            IF dao_outcome.kind = "raise"
            THEN IF e.type = "HTTPError"
                 THEN IF e.response # None
                      THEN Raise(get_wrapped_exception(client, frame.group,
                                                       frame.artifact, e))
                      ELSE dao_outcome
                 ELSE dao_outcome
            ELSE IF dao_outcome.value = <<>>
                 THEN Raise(get_wrapped_exception(client, frame.group,
                                                  frame.artifact, None))
                 ELSE Return(dao_outcome.value)]

(* get_latest_versions from the DAO's answer on. *)
get_latest_versions_return(client, frame, dao_outcome) ==
    LET e == dao_outcome.exc
    IN  [self |-> client, requests |-> <<>>,
         outcome |->
            IF dao_outcome.kind = "raise"
            THEN IF e.type = "HTTPError"
                 THEN IF e.response # None /\ e.response.status_code = not_found
                      THEN Raise(get_wrapped_exception(client, frame.group,
                                                       frame.artifact, e))
                      ELSE dao_outcome
                 ELSE dao_outcome
            ELSE IF dao_outcome.value = <<>>
                 THEN Raise(get_wrapped_exception(client, frame.group,
                                                  frame.artifact, None))
                 ELSE Return(dao_outcome.value)]

----------------------------------------------------------------------------
(* The version query service (stac.http.VersionApiDao), by its contract:   *)
(* get_most_recent_release answers one version, get_most_recent_versions   *)
(* at most limit versions in the server's order, and either may raise a    *)
(* transport error: an HTTPError with a response and its status, an        *)
(* HTTPError without a response, or an error that is no HTTPError.         *)

Versions == {<<"1">>, <<"2">>}

StatusCodes == {403, not_found, 500}

TransportErrors ==
    {[type |-> "HTTPError", response |-> [status_code |-> s]] : s \in StatusCodes}
        \cup {[type |-> "HTTPError", response |-> None],
              [type |-> "ConnectionError", response |-> None]}

SeqsUpTo(S, n) == UNION {[1..k -> S] : k \in 0..n}

DaoReplies(request) ==
    {Raise(e) : e \in TransportErrors}
        \cup (IF request.method = "get_most_recent_release"
              THEN {Return(v) : v \in Versions}
              ELSE {Return(vs) : vs \in SeqsUpTo(Versions, request.limit)})

----------------------------------------------------------------------------
(* The callers' inputs. *)

Chars == {"a", "b", "."}

FullNames == SeqsUpTo(Chars, MaxNameLen)

Packagings == {<<"j">>, <<"t", ".", "g">>}

Descriptors == {None, Str(<<"s">>), Str(<<>>)}

Limits == -1..MaxLimit

BaseUrls == {<<"h">>, <<"h", "/", "x">>}

Repos == {<<"r">>}

Configs ==
    [base_url : BaseUrls, repo : Repos, is_snapshot : BOOLEAN,
     dao : {"VersionApiDao"}]

Callers == 1..NumCallers

(* The inputs of the specification of concurrent callers. *)
FewFullNames == {<<"a", ".", "b">>, <<"a">>}

FewLimits == {0, 1}

----------------------------------------------------------------------------
(* The steps. *)

Enter(t, c, r) ==
    /\ pc[t] = "idle"
    /\ self' = r.self
    /\ call' = [call EXCEPT ![t] = c]
    /\ sent' = [sent EXCEPT ![t] = r.requests]
    /\ result' = [result EXCEPT ![t] = r.outcome]
    /\ pc' = [pc EXCEPT ![t] = IF r.outcome.kind = "none" THEN "waiting"
                               ELSE "done"]
    /\ UNCHANGED <<config, reply>>

Leave(t, dao_outcome, r) ==
    /\ self' = r.self
    /\ reply' = [reply EXCEPT ![t] = dao_outcome]
    /\ sent' = [sent EXCEPT ![t] = @ \o r.requests]
    /\ result' = [result EXCEPT ![t] = r.outcome]
    /\ pc' = [pc EXCEPT ![t] = "done"]
    /\ UNCHANGED <<config, call, locals>>

GetVersionUrl(t, full_name, packaging, version, descriptor) ==
    /\ Enter(t, [op |-> "get_version_url", full_name |-> full_name,
                 packaging |-> packaging, version |-> version,
                 descriptor |-> descriptor],
             get_version_url(self, full_name, packaging, version, descriptor))
    /\ UNCHANGED locals

GetLatestVersionCall(t, full_name) ==
    LET r == get_latest_version_call(self, full_name)
    IN  /\ Enter(t, [op |-> "get_latest_version", full_name |-> full_name], r)
        /\ locals' = [locals EXCEPT ![t] = r.locals]

GetLatestVersionReturn(t) ==
    /\ pc[t] = "waiting"
    /\ call[t].op = "get_latest_version"
    /\ \E dao_outcome \in DaoReplies(sent[t][Len(sent[t])]) :
          Leave(t, dao_outcome,
                get_latest_version_return(self, locals[t], dao_outcome))

GetLatestVersionsCall(t, full_name, limit) ==
    LET r == get_latest_versions_call(self, full_name, limit)
    IN  /\ Enter(t, [op |-> "get_latest_versions", full_name |-> full_name,
                     limit |-> limit], r)
        /\ locals' = [locals EXCEPT ![t] = r.locals]

GetLatestVersionsReturn(t) ==
    /\ pc[t] = "waiting"
    /\ call[t].op = "get_latest_versions"
    /\ \E dao_outcome \in DaoReplies(sent[t][Len(sent[t])]) :
          Leave(t, dao_outcome,
                get_latest_versions_return(self, locals[t], dao_outcome))

(* The caller has its value or its exception; its frame is gone. *)
Finish(t) ==
    /\ pc[t] = "done"
    /\ pc' = [pc EXCEPT ![t] = "idle"]
    /\ call' = [call EXCEPT ![t] = NoCall]
    /\ locals' = [locals EXCEPT ![t] = NoLocals]
    /\ sent' = [sent EXCEPT ![t] = <<>>]
    /\ reply' = [reply EXCEPT ![t] = NoOutcome]
    /\ result' = [result EXCEPT ![t] = NoOutcome]
    /\ UNCHANGED <<config, self>>

InitOf(callers) ==
    /\ config \in Configs
    /\ self = MavenArtifactoryClient_init(config)
    /\ pc = [t \in callers |-> "idle"]
    /\ call = [t \in callers |-> NoCall]
    /\ locals = [t \in callers |-> NoLocals]
    /\ sent = [t \in callers |-> <<>>]
    /\ reply = [t \in callers |-> NoOutcome]
    /\ result = [t \in callers |-> NoOutcome]

(* One caller, every input. *)
Init == InitOf({1})

Next ==
    \/ \E n \in FullNames, p \in Packagings, v \in Versions, d \in Descriptors :
          GetVersionUrl(1, n, p, v, d)
    \/ \E n \in FullNames : GetLatestVersionCall(1, n)
    \/ GetLatestVersionReturn(1)
    \/ \E n \in FullNames, l \in Limits : GetLatestVersionsCall(1, n, l)
    \/ GetLatestVersionsReturn(1)
    \/ Finish(1)

Spec == Init /\ [][Next]_vars

(* Several callers on one client, a few inputs. *)
InitConc == InitOf(Callers)

NextConc ==
    \E t \in Callers :
        \/ \E n \in FewFullNames : GetVersionUrl(t, n, <<"j">>, <<"1">>, None)
        \/ \E n \in FewFullNames : GetLatestVersionCall(t, n)
        \/ GetLatestVersionReturn(t)
        \/ \E n \in FewFullNames, l \in FewLimits : GetLatestVersionsCall(t, n, l)
        \/ GetLatestVersionsReturn(t)
        \/ Finish(t)

SpecConc == InitConc /\ [][NextConc]_vars

----------------------------------------------------------------------------
(* What the properties speak of, stated without the model's operators. *)

HasDot(s) == \E i \in 1..Len(s) : s[i] = "."

LastDot(s) ==
    CHOOSE i \in 1..Len(s) : s[i] = "." /\ \A j \in (i + 1)..Len(s) : s[j] # "."

GroupOf(s) == SubSeq(s, 1, LastDot(s) - 1)

ArtifactOf(s) == SubSeq(s, LastDot(s) + 1, Len(s))

Slashed(s) == [k \in 1..Len(s) |-> IF s[k] = "." THEN "/" ELSE s[k]]

IsLookup(c) == c.op \in {"get_latest_version", "get_latest_versions"}

(* The call's arguments are invalid. *)
Invalid(c) ==
    /\ c.op # "none"
    /\ \/ c.op = "get_latest_versions" /\ c.limit < 1
       \/ ~HasDot(c.full_name)

Is404(o) ==
    /\ o.kind = "raise"
    /\ o.exc.type = "HTTPError"
    /\ o.exc.response # None
    /\ o.exc.response.status_code = 404

IsNoMatchingVersions(o) ==
    o.kind = "raise" /\ o.exc.type = "NoMatchingVersionsError"

Done(t) == pc[t] = "done"

(* C1: when the DAO raises an HTTPError whose response has status 404,     *)
(* get_latest_version and get_latest_versions, in either mode, raise       *)
(* NoMatchingVersionsError whose cause is that very error.                 *)
C1_NotFoundIsWrapped ==
    \A t \in DOMAIN pc :
        Done(t) /\ IsLookup(call[t]) /\ Is404(reply[t])
            => /\ IsNoMatchingVersions(result[t])
               /\ result[t].exc.cause = reply[t].exc

C1_Witness ==
    \E t \in DOMAIN pc :
        /\ Done(t) /\ call[t].op = "get_latest_version" /\ config.is_snapshot
        /\ Is404(reply[t]) /\ IsNoMatchingVersions(result[t])

(* C2: a transport error of the DAO that is not a 404 (another status, an  *)
(* HTTPError without a response, an error that is no HTTPError) reaches    *)
(* the caller of a lookup as it is, after the one request.                 *)
C2_OtherErrorsPropagate ==
    \A t \in DOMAIN pc :
        Done(t) /\ IsLookup(call[t]) /\ reply[t].kind = "raise" /\ ~Is404(reply[t])
            => /\ result[t] = reply[t]
               /\ Len(sent[t]) = 1

C2_Witness ==
    \E t \in DOMAIN pc :
        /\ Done(t) /\ call[t].op = "get_latest_versions"
        /\ reply[t].kind = "raise" /\ reply[t].exc.type = "HTTPError"
        /\ reply[t].exc.response # None
        /\ reply[t].exc.response.status_code = 500
        /\ result[t] = reply[t]

(* The lookups whose DAO call is get_most_recent_versions. *)
AsksVersions(t) ==
    \/ call[t].op = "get_latest_versions"
    \/ call[t].op = "get_latest_version" /\ config.is_snapshot

(* C3: when get_most_recent_versions answers an empty sequence, the lookup *)
(* raises NoMatchingVersionsError with no cause; no lookup that asks for   *)
(* versions returns an empty sequence.                                     *)
C3_EmptyIsNoMatchingVersions ==
    \A t \in DOMAIN pc :
        Done(t) /\ AsksVersions(t)
            => /\ reply[t].kind = "return" /\ reply[t].value = <<>>
                  => IsNoMatchingVersions(result[t]) /\ result[t].exc.cause = None
               /\ result[t].kind = "return" => result[t].value # <<>>

C3_Witness ==
    \E t \in DOMAIN pc :
        /\ Done(t) /\ call[t].op = "get_latest_version" /\ config.is_snapshot
        /\ reply[t] = Return(<<>>)
        /\ IsNoMatchingVersions(result[t])

(* C4: a call with invalid arguments (limit < 1, or a full_name with no    *)
(* '.') ends with ValueError, having issued no DAO request.                *)
C4_InvalidArguments ==
    \A t \in DOMAIN pc :
        Invalid(call[t])
            => /\ Done(t)
               /\ result[t] = Raise(ValueError)
               /\ sent[t] = <<>>
               /\ reply[t] = NoOutcome

C4_Witness ==
    \E t \in DOMAIN pc :
        /\ Done(t) /\ call[t].op = "get_latest_versions"
        /\ call[t].limit = 0 /\ HasDot(call[t].full_name)
        /\ result[t] = Raise(ValueError)

(* C5: get_latest_version on a release client asks                         *)
(* get_most_recent_release(group, artifact) and returns its answer; on a   *)
(* snapshot client it asks get_most_recent_versions(group, artifact, 1,    *)
(* integration=True) and returns the first version of the answer.          *)
C5_LatestVersionQuery ==
    \A t \in DOMAIN pc :
        call[t].op = "get_latest_version" /\ ~Invalid(call[t])
            => LET n == call[t].full_name
               IN  /\ sent[t] =
                        << IF config.is_snapshot
                           THEN [method |-> "get_most_recent_versions",
                                 dao |-> config.dao,
                                 group |-> GroupOf(n), artifact |-> ArtifactOf(n),
                                 limit |-> 1, integration |-> TRUE]
                           ELSE [method |-> "get_most_recent_release",
                                 dao |-> config.dao,
                                 group |-> GroupOf(n), artifact |-> ArtifactOf(n)] >>
                   /\ Done(t) /\ reply[t].kind = "return" /\ ~config.is_snapshot
                        => result[t] = Return(reply[t].value)
                   /\ Done(t) /\ reply[t].kind = "return" /\ config.is_snapshot
                           /\ reply[t].value # <<>>
                        => result[t] = Return(reply[t].value[1])

C5_Witness ==
    \E t \in DOMAIN pc :
        /\ Done(t) /\ call[t].op = "get_latest_version" /\ config.is_snapshot
        /\ call[t].full_name = <<"a", ".", "b">>
        /\ reply[t] = Return(<< <<"2">> >>)
        /\ result[t] = Return(<<"2">>)

(* C6: get_latest_versions with limit >= 1 asks                            *)
(* get_most_recent_versions(group, artifact, limit,                        *)
(* integration=is_snapshot) and returns a non-empty answer as it came: at  *)
(* most limit versions, in the DAO's order.                                *)
C6_LatestVersionsQuery ==
    \A t \in DOMAIN pc :
        call[t].op = "get_latest_versions" /\ ~Invalid(call[t])
            => LET n == call[t].full_name
               IN  /\ sent[t] =
                        << [method |-> "get_most_recent_versions",
                            dao |-> config.dao,
                            group |-> GroupOf(n), artifact |-> ArtifactOf(n),
                            limit |-> call[t].limit,
                            integration |-> config.is_snapshot] >>
                   /\ Done(t) /\ reply[t].kind = "return" /\ reply[t].value # <<>>
                        => /\ result[t] = Return(reply[t].value)
                           /\ Len(result[t].value) <= call[t].limit

C6_Witness ==
    \E t \in DOMAIN pc :
        /\ Done(t) /\ call[t].op = "get_latest_versions" /\ ~config.is_snapshot
        /\ call[t].limit = 2
        /\ reply[t] = Return(<< <<"1">>, <<"2">> >>)
        /\ result[t] = Return(<< <<"1">>, <<"2">> >>)

(* C7: for a full_name with a '.', get_version_url returns                 *)
(* base/repo/<group, '.' as '/'>/artifact/version/filename, where group    *)
(* and artifact are the parts before and after the last '.', and filename  *)
(* is artifact-version.packaging, or artifact-version-descriptor.packaging *)
(* when a descriptor is given.                                             *)
C7_VersionUrl ==
    \A t \in DOMAIN pc :
        Done(t) /\ call[t].op = "get_version_url" /\ HasDot(call[t].full_name)
            => LET c == call[t]
                   artifact == ArtifactOf(c.full_name)
                   filename ==
                       artifact \o <<"-">> \o c.version
                           \o (IF c.descriptor = None THEN <<>>
                               ELSE <<"-">> \o c.descriptor.chars)
                           \o <<".">> \o c.packaging
               IN  result[t] =
                       Return(config.base_url \o <<"/">> \o config.repo \o <<"/">>
                              \o Slashed(GroupOf(c.full_name)) \o <<"/">>
                              \o artifact \o <<"/">> \o c.version \o <<"/">>
                              \o filename)

C7_Witness ==
    \E t \in DOMAIN pc :
        /\ Done(t) /\ call[t].op = "get_version_url"
        /\ call[t].full_name = <<"a", ".", "b">>
        /\ call[t].descriptor = Str(<<"s">>)
        /\ call[t].packaging = <<"j">> /\ call[t].version = <<"1">>
        /\ config.base_url = <<"h">>
        /\ result[t] = Return(<<"h", "/", "r", "/", "a", "/", "b", "/", "1", "/",
                                "b", "-", "1", "-", "s", ".", "j">>)

(* C8: get_version_url issues no DAO request and has no DAO answer,        *)
(* whether it returns or raises; for a full_name with a '.' it returns.    *)
C8_VersionUrlNoRequest ==
    \A t \in DOMAIN pc :
        call[t].op = "get_version_url"
            => /\ Done(t)
               /\ sent[t] = <<>>
               /\ reply[t] = NoOutcome
               /\ HasDot(call[t].full_name) => result[t].kind = "return"

C8_Witness ==
    \E t \in DOMAIN pc :
        /\ Done(t) /\ call[t].op = "get_version_url"
        /\ call[t].full_name = <<"b", ".", "a">> /\ call[t].descriptor = None
        /\ result[t].kind = "return" /\ sent[t] = <<>>

(* C9: a lookup whose arguments are valid issues exactly one DAO request:  *)
(* one while it waits for the answer, and still one when it has returned   *)
(* or raised, whatever the answer was.                                     *)
C9_OneRequest ==
    \A t \in DOMAIN pc :
        IsLookup(call[t]) /\ ~Invalid(call[t])
            => /\ Len(sent[t]) = 1
               /\ pc[t] = "waiting" => reply[t] = NoOutcome /\ result[t] = NoOutcome
               /\ Done(t) => /\ reply[t] \in DaoReplies(sent[t][1])
                             /\ result[t].kind \in {"return", "raise"}

C9_Witness ==
    \E t \in DOMAIN pc :
        /\ Done(t) /\ call[t].op = "get_latest_version" /\ ~config.is_snapshot
        /\ reply[t].kind = "raise" /\ reply[t].exc.type = "HTTPError"
        /\ reply[t].exc.response # None
        /\ reply[t].exc.response.status_code = 500
        /\ Len(sent[t]) = 1

(* What a call gives when it runs alone on a client fresh from cfg. *)
AloneOutcome(cfg, c, dao_outcome) ==
    LET client == MavenArtifactoryClient_init(cfg)
    IN  IF c.op = "get_version_url"
        THEN get_version_url(client, c.full_name, c.packaging, c.version,
                             c.descriptor).outcome
        ELSE IF c.op = "get_latest_version"
        THEN LET e == get_latest_version_call(client, c.full_name)
             IN  IF e.outcome.kind # "none" THEN e.outcome
                 ELSE get_latest_version_return(client, e.locals, dao_outcome).outcome
        ELSE LET e == get_latest_versions_call(client, c.full_name, c.limit)
             IN  IF e.outcome.kind # "none" THEN e.outcome
                 ELSE get_latest_versions_return(client, e.locals, dao_outcome).outcome

(* C10: with several callers interleaved, the client's fields stay what    *)
(* the constructor made them from the configuration, and what a finished   *)
(* call hands back is what it would hand back alone: a function of its     *)
(* arguments, the configuration and the DAO's answer to its own request.   *)
C10_ConcurrentUse ==
    /\ self.is_snapshot = config.is_snapshot
    /\ self.dao = config.dao
    /\ self.artifact_urls = [base |-> config.base_url, repo |-> config.repo]
    /\ \A t \in DOMAIN pc :
          Done(t) => result[t] = AloneOutcome(config, call[t], reply[t])

C10_Witness ==
    \E t, u \in DOMAIN pc :
        /\ t # u
        /\ pc[t] = "waiting" /\ call[t].op = "get_latest_version"
        /\ Done(u) /\ call[u].op = "get_latest_versions"
        /\ IsNoMatchingVersions(result[u])

====
